---- MODULE Spec2Model ----
(***************************************************************************)
(* A model of monetlang/uint256 (src/src/uint256.rs): the two-limb         *)
(* UInt256 value, its checked arithmetic operators and the staged          *)
(* UInt256Builder.                                                         *)
(*                                                                         *)
(* Widths are scaled so that the operand space can be enumerated: a byte   *)
(* has ByteBits bits (8 in the source), a limb has LimbBytes bytes (16 in  *)
(* the source), so a limb has LimbBits bits (128), a value TotalBits bits  *)
(* (256) and TotalBytes bytes (32); the literal 64 of Mul is HalfShift.    *)
(* Every native operation keeps its width (% LimbMod), and the build's     *)
(* overflow checks (on: a native overflow panics; off: it wraps) are a     *)
(* choice made in the initial state.                                       *)
(***************************************************************************)
EXTENDS Integers, Sequences, FiniteSets, TLC

\* Bits of one byte (u8 in the source, 8 bits), scaled.
ByteBits == 1

\* Bytes of one limb (the 16 of `i < 16`, of [u8; 16] and of bytes[16 + i]),
\* scaled: the bound on the width of the operands.
LimbBytes == 2

\* The longest sequence of builder calls that is followed.
MaxCalls == 4

\* Bits of one limb (u128 in the source).
LimbBits == LimbBytes * ByteBits

\* Bits of a value (the 256 of bit_at, set_bit, divide and the shifts).
TotalBits == 2 * LimbBits

\* Bytes of a value (the 32 of [u8; 32]).
TotalBytes == 2 * LimbBytes

\* The literal 64 of Mul: half the width of a limb.
HalfShift == LimbBits \div 2

RECURSIVE Pow2(_)
Pow2(n) == IF n = 0 THEN 1 ELSE 2 * Pow2(n - 1)

\* Number of values of a limb; u128::MAX is LimbMod - 1.
LimbMod == Pow2(LimbBits)

U128MAX == LimbMod - 1

ByteMod == Pow2(ByteBits)

Limbs == 0 .. U128MAX

Endian == {"Little", "Big"}

VARIABLES
    overflow_checks,  \* the build: TRUE = overflow checks on (debug), FALSE = off (release)
    a,                \* left operand
    b,                \* right operand
    shift_by,         \* shift count (u32) of << and >>
    op,               \* the operator applied to (a, b), "none" before
    out,              \* what the operator produced
    ret,              \* what an operation that returns no UInt256 produced
    bytes,            \* UInt256Builder.bytes
    endian,           \* UInt256Builder.endian  ("None" or an Endian)
    padding,          \* UInt256Builder.padding (-1 for None, or a byte)
    status,           \* the builder: "open", "panicked" or "built"
    built,            \* what build() returned
    calls,            \* history: the names of the calls made on the builder so far
    args,             \* history: the latest arguments of with_endian (e), of
                      \* with_padding (f) and of an ingestion that returned (v)
    input             \* the &str argument of a parsing function, as its chars

vars == <<overflow_checks, a, b, shift_by, op, out, ret, bytes, endian, padding, status, built, calls, args, input>>

----------------------------------------------------------------------------
\* UInt256 values and results

New(high, low, e) == [high |-> high, low |-> low, endian |-> e]

ZERO == New(0, 0, "Big")

ONE == New(0, 1, "Big")

MAX == New(U128MAX, U128MAX, "Big")

UInt256 == [high : Limbs, low : Limbs, endian : Endian]

\* A returned value; rem and iters are used by divide only.
Ok(v) == [kind |-> "ok", msg |-> "", val |-> v, rem |-> ZERO, iters |-> 0]

\* A panic (fatal abort) with its message.
Panic(m) == [kind |-> "panic", msg |-> m, val |-> ZERO, rem |-> ZERO, iters |-> 0]

\* Results of native limb operations.
NOk(n) == [ok |-> TRUE, v |-> n, msg |-> ""]

NPanic(m) == [ok |-> FALSE, v |-> 0, msg |-> m]

----------------------------------------------------------------------------
\* Native u128 operations

OverflowingAdd(x, y) == [v |-> (x + y) % LimbMod, carry |-> x + y >= LimbMod]

OverflowingSub(x, y) == [v |-> (x - y + LimbMod) % LimbMod, borrow |-> x < y]

\* x + y: panics under overflow checks, wraps without them.
NativeAdd(x, y) ==
    IF x + y >= LimbMod /\ overflow_checks
    THEN NPanic("attempt to add with overflow")
    ELSE NOk((x + y) % LimbMod)

\* x - y
NativeSub(x, y) ==
    IF x < y /\ overflow_checks
    THEN NPanic("attempt to subtract with overflow")
    ELSE NOk((x - y + LimbMod) % LimbMod)

\* x * y
NativeMul(x, y) ==
    IF x * y >= LimbMod /\ overflow_checks
    THEN NPanic("attempt to multiply with overflow")
    ELSE NOk((x * y) % LimbMod)

\* x << s: the bits shifted out are dropped; a shift by the width or more
\* panics under overflow checks and is masked to the width without them.
NativeShl(x, s) ==
    IF s >= LimbBits
    THEN IF overflow_checks
         THEN NPanic("attempt to shift left with overflow")
         ELSE NOk((x * Pow2(s % LimbBits)) % LimbMod)
    ELSE NOk((x * Pow2(s)) % LimbMod)

\* x >> s
NativeShr(x, s) ==
    IF s >= LimbBits
    THEN IF overflow_checks
         THEN NPanic("attempt to shift right with overflow")
         ELSE NOk(x \div Pow2(s % LimbBits))
    ELSE NOk(x \div Pow2(s))

RECURSIVE BitOrNat(_, _)
BitOrNat(x, y) ==
    IF x = 0 THEN y
    ELSE IF y = 0 THEN x
    ELSE (IF x % 2 = 1 \/ y % 2 = 1 THEN 1 ELSE 0) + 2 * BitOrNat(x \div 2, y \div 2)

RECURSIVE BitAndNat(_, _)
BitAndNat(x, y) ==
    IF x = 0 \/ y = 0 THEN 0
    ELSE (IF x % 2 = 1 /\ y % 2 = 1 THEN 1 ELSE 0) + 2 * BitAndNat(x \div 2, y \div 2)

----------------------------------------------------------------------------
\* Comparison

is_zero(x) == x.high = 0 /\ x.low = 0

\* PartialEq: the tag is not compared.
Eq(x, y) == x.high = y.high /\ x.low = y.low

\* A comparison that looks at low before high
CmpLowFirst(x, y) ==
    IF x.low < y.low THEN "Less"
    ELSE IF x.low > y.low THEN "Greater"
    ELSE IF x.high < y.high THEN "Less"
    ELSE IF x.high > y.high THEN "Greater"
    ELSE "Equal"

\* Ord::cmp: high first, then low.
Cmp(x, y) ==
    IF x.high < y.high THEN "Less"
    ELSE IF x.high > y.high THEN "Greater"
    ELSE IF x.low < y.low THEN "Less"
    ELSE IF x.low > y.low THEN "Greater"
    ELSE "Equal"

\* PartialOrd::partial_cmp: Some(self.cmp(other))
partial_cmp(x, y) == [some |-> TRUE, ord |-> Cmp(x, y)]

\* Discriminant of Endian, as derive(Hash) writes it
Discriminant(e) == IF e = "Little" THEN 0 ELSE 1

\* derive(Hash) for UInt256: the fields are fed to the hasher in declaration
\* order
hash(x) == <<x.high, x.low, Discriminant(x.endian)>>

Lt(x, y) == Cmp(x, y) = "Less"

Ge(x, y) == Cmp(x, y) # "Less"

----------------------------------------------------------------------------
\* impl Add for UInt256

Add(x, y) ==
    LET l == OverflowingAdd(x.low, y.low) IN
    IF l.carry
    THEN LET h == OverflowingAdd(x.high, y.high) IN
         IF h.carry
         THEN Panic("addition overflow on most significant bits")
         ELSE IF h.v = U128MAX
         THEN Panic("addition overflow on least significant bits")
         ELSE Ok(New(h.v + 1, x.low, x.endian))
    ELSE Ok(New(x.high, l.v, x.endian))

\* impl Sub for UInt256

\* Sub with its precondition tested on the high limbs alone
SubHighGuard(x, y) ==
    IF x.high < y.high
    THEN Panic("subtraction overflow")
    ELSE LET l == OverflowingSub(x.low, y.low) IN
         IF l.borrow
         THEN LET h == OverflowingSub(x.high, y.high) IN
              IF h.borrow
              THEN Panic("subtraction overflow on most significant bits")
              ELSE LET d == NativeSub(h.v, 1) IN
                   IF d.ok THEN Ok(New(d.v, x.low, x.endian)) ELSE Panic(d.msg)
         ELSE Ok(New(x.high, l.v, x.endian))

Sub(x, y) ==
    IF Lt(x, y)
    THEN Panic("subtraction overflow")
    ELSE LET l == OverflowingSub(x.low, y.low) IN
         IF l.borrow
         THEN LET h == OverflowingSub(x.high, y.high) IN
              IF h.borrow
              THEN Panic("subtraction overflow on most significant bits")
              ELSE LET d == NativeSub(h.v, 1) IN
                   IF d.ok THEN Ok(New(d.v, x.low, x.endian)) ELSE Panic(d.msg)
         ELSE Ok(New(x.high, l.v, x.endian))

\* impl Mul for UInt256

\* high_high + (low_high >> 64) + (high_low >> 64) + carry1 + carry2, left to right
MulHighSum(high_high, low_high, high_low, carry1, carry2) ==
    LET s1 == NativeAdd(high_high, NativeShr(low_high, HalfShift).v) IN
    IF ~s1.ok THEN s1
    ELSE LET s2 == NativeAdd(s1.v, NativeShr(high_low, HalfShift).v) IN
         IF ~s2.ok THEN s2
         ELSE LET s3 == NativeAdd(s2.v, IF carry1 THEN 1 ELSE 0) IN
              IF ~s3.ok THEN s3
              ELSE NativeAdd(s3.v, IF carry2 THEN 1 ELSE 0)

\* Mul without the (high_low << 64) term of the low limb
MulLowHighOnly(x, y) ==
    LET low_low   == NativeMul(x.low, y.low)
        low_high  == NativeMul(x.low, y.high)
        high_low  == NativeMul(x.high, y.low)
        high_high == NativeMul(x.high, y.high)
    IN  IF ~low_low.ok THEN Panic(low_low.msg)
        ELSE IF ~low_high.ok THEN Panic(low_high.msg)
        ELSE IF ~high_low.ok THEN Panic(high_low.msg)
        ELSE IF ~high_high.ok THEN Panic(high_high.msg)
        ELSE LET s1   == OverflowingAdd(low_low.v, NativeShl(low_high.v, HalfShift).v)
                 high == MulHighSum(high_high.v, low_high.v, high_low.v, s1.carry, FALSE)
             IN  IF ~high.ok THEN Panic(high.msg)
                 ELSE Ok(New(high.v, s1.v, x.endian))

Mul(x, y) ==
    LET low_low   == NativeMul(x.low, y.low)
        low_high  == NativeMul(x.low, y.high)
        high_low  == NativeMul(x.high, y.low)
        high_high == NativeMul(x.high, y.high)
    IN  IF ~low_low.ok THEN Panic(low_low.msg)
        ELSE IF ~low_high.ok THEN Panic(low_high.msg)
        ELSE IF ~high_low.ok THEN Panic(high_low.msg)
        ELSE IF ~high_high.ok THEN Panic(high_high.msg)
        ELSE LET s1   == OverflowingAdd(low_low.v, NativeShl(low_high.v, HalfShift).v)
                 s2   == OverflowingAdd(s1.v, NativeShl(high_low.v, HalfShift).v)
                 high == MulHighSum(high_high.v, low_high.v, high_low.v, s1.carry, s2.carry)
             IN  IF ~high.ok THEN Panic(high.msg)
                 ELSE Ok(New(high.v, s2.v, x.endian))

\* impl Shr<u32> for UInt256

Shr(x, shift) ==
    IF shift >= LimbBits
    THEN LET l == NativeShr(x.high, shift - LimbBits) IN
         IF l.ok THEN Ok(New(0, l.v, x.endian)) ELSE Panic(l.msg)
    ELSE IF shift >= TotalBits
    THEN Ok(ZERO)
    ELSE LET h  == NativeShr(x.high, shift)
             c  == NativeShl(x.high, LimbBits - shift)
             l  == NativeShr(x.low, shift)
         IN  IF ~h.ok THEN Panic(h.msg)
             ELSE IF ~c.ok THEN Panic(c.msg)
             ELSE IF ~l.ok THEN Panic(l.msg)
             ELSE Ok(New(h.v, BitOrNat(c.v, l.v), x.endian))

\* impl Shl<u32> for UInt256

\* Shl without the bits of low that cross into high
ShlNoCarry(x, shift) ==
    IF shift >= LimbBits
    THEN LET h == NativeShl(x.low, shift - LimbBits) IN
         IF h.ok THEN Ok(New(h.v, 0, x.endian)) ELSE Panic(h.msg)
    ELSE LET h  == NativeShl(x.high, shift)
             l  == NativeShl(x.low, shift)
         IN  IF ~h.ok THEN Panic(h.msg)
             ELSE IF ~l.ok THEN Panic(l.msg)
             ELSE Ok(New(h.v, l.v, x.endian))

Shl(x, shift) ==
    IF shift >= LimbBits
    THEN LET h == NativeShl(x.low, shift - LimbBits) IN
         IF h.ok THEN Ok(New(h.v, 0, x.endian)) ELSE Panic(h.msg)
    ELSE IF shift >= TotalBits
    THEN Ok(ZERO)
    ELSE LET h  == NativeShl(x.high, shift)
             c  == NativeShr(x.low, LimbBits - shift)
             l  == NativeShl(x.low, shift)
         IN  IF ~h.ok THEN Panic(h.msg)
             ELSE IF ~c.ok THEN Panic(c.msg)
             ELSE IF ~l.ok THEN Panic(l.msg)
             ELSE Ok(New(BitOrNat(h.v, c.v), l.v, x.endian))

\* UInt256::bit_at: 1 or 0, or the assertion's panic
bit_at(x, index) ==
    IF index >= TotalBits
    THEN NPanic("Bit index out of range")
    ELSE IF index < LimbBits
    THEN LET m == NativeShl(1, index) IN
         IF ~m.ok THEN m ELSE NOk(IF BitAndNat(x.low, m.v) # 0 THEN 1 ELSE 0)
    ELSE LET m == NativeShl(1, index - LimbBits) IN
         IF ~m.ok THEN m ELSE NOk(IF BitAndNat(x.high, m.v) # 0 THEN 1 ELSE 0)

\* UInt256::set_bit
set_bit(x, index) ==
    IF index >= TotalBits
    THEN Panic("Bit index out of range")
    ELSE IF index < LimbBits
    THEN LET m == NativeShl(1, index) IN
         IF ~m.ok THEN Panic(m.msg) ELSE Ok([x EXCEPT !.low = BitOrNat(x.low, m.v)])
    ELSE LET m == NativeShl(1, index - LimbBits) IN
         IF ~m.ok THEN Panic(m.msg) ELSE Ok([x EXCEPT !.high = BitOrNat(x.high, m.v)])

\* The loop of divide: `left` indexes remain, the next one is left - 1;
\* n counts the iterations begun.
RECURSIVE DivideLoop(_, _, _, _, _, _)
DivideLoop(left, dividend, divisor, quotient, remainder, n) ==
    IF left = 0
    THEN [kind |-> "ok", msg |-> "", val |-> quotient, rem |-> remainder, iters |-> n]
    ELSE LET i  == left - 1
             r1 == Shl(remainder, 1)
             bt == bit_at(dividend, i)
         IN  IF r1.kind = "panic" THEN [r1 EXCEPT !.iters = n + 1]
             ELSE IF ~bt.ok THEN [Panic(bt.msg) EXCEPT !.iters = n + 1]
             ELSE LET r2 == [r1.val EXCEPT !.low = BitOrNat(r1.val.low, bt.v)] IN
                  IF Ge(r2, divisor)
                  THEN LET r3 == Sub(r2, divisor)
                           q  == set_bit(quotient, i)
                       IN  IF r3.kind = "panic" THEN [r3 EXCEPT !.iters = n + 1]
                           ELSE IF q.kind = "panic" THEN [q EXCEPT !.iters = n + 1]
                           ELSE DivideLoop(i, dividend, divisor, q.val, r3.val, n + 1)
                  ELSE DivideLoop(i, dividend, divisor, quotient, r2, n + 1)

\* divide that enters the loop also when dividend < divisor
DivideNoFastPath(dividend, divisor) ==
    IF is_zero(divisor)
    THEN Panic("division by zero")
    ELSE DivideLoop(TotalBits, dividend, divisor, ZERO, ZERO, 0)

\* divide(dividend, divisor) -> (quotient, remainder)
divide(dividend, divisor) ==
    IF is_zero(divisor)
    THEN Panic("division by zero")
    ELSE IF Lt(dividend, divisor)
    THEN [kind |-> "ok", msg |-> "", val |-> ZERO, rem |-> dividend, iters |-> 0]
    ELSE DivideLoop(TotalBits, dividend, divisor, ZERO, ZERO, 0)

\* impl Div for UInt256: the quotient of divide
Div(x, divisor) ==
    LET r == divide(x, divisor) IN
    IF r.kind = "panic" THEN r ELSE Ok(r.val)

----------------------------------------------------------------------------
\* The operators applied to operands drawn from all values, in both builds

NoBytes == <<>>

NoRet == <<>>

NoArgs == [e |-> "None", f |-> -1, v |-> <<>>]

NoInput == <<>>

Init ==
    /\ overflow_checks \in BOOLEAN
    /\ a \in UInt256
    /\ b \in UInt256
    /\ shift_by = 0
    /\ op = "none"
    /\ out = Panic("")
    /\ ret = NoRet
    /\ bytes = NoBytes
    /\ endian = "None"
    /\ padding = -1
    /\ status = "unused"
    /\ built = Panic("")
    /\ calls = <<>>
    /\ args = NoArgs
    /\ input = NoInput

Apply(name, result) ==
    /\ op = "none"
    /\ op' = name
    /\ out' = result
    /\ UNCHANGED <<overflow_checks, a, b, shift_by, ret, bytes, endian, padding, status, built, calls, args, input>>

ApplyAdd == Apply("add", Add(a, b))

ApplySub == Apply("sub", Sub(a, b))

ApplyMul == Apply("mul", Mul(a, b))

ApplyDivide == Apply("divide", divide(a, b))

ApplyDiv == Apply("div", Div(a, b))

Next == ApplyAdd \/ ApplySub \/ ApplyMul \/ ApplyDivide \/ ApplyDiv

Spec == Init /\ [][Next]_vars

----------------------------------------------------------------------------
\* Byte conversions

Bytes == 0 .. ByteMod - 1

\* [u8; 32]
ByteArrays == [1 .. TotalBytes -> Bytes]

Min(m, n) == IF m < n THEN m ELSE n

\* utils::pad_bytes; data[k] of the source is data[k + 1] here
pad_bytes(data, with, e) ==
    LET len == Min(Len(data), TotalBytes) IN
    [i \in 1 .. TotalBytes |->
        IF e = "Big"
        THEN IF i > TotalBytes - len THEN data[i - (TotalBytes - len)] ELSE with
        ELSE IF i <= len THEN data[i] ELSE with]

\* The loop of from_le_bytes from index i on (i counts from 0)
RECURSIVE FromLeLoop(_, _, _, _)
FromLeLoop(bs, i, low, high) ==
    IF i >= Len(bs)
    THEN [low |-> low, high |-> high]
    ELSE IF i < LimbBytes
    THEN FromLeLoop(bs, i + 1, BitOrNat(low, NativeShl(bs[i + 1], i * ByteBits).v), high)
    ELSE FromLeLoop(bs, i + 1, low,
                    BitOrNat(high, NativeShl(bs[i + 1], (i - LimbBytes) * ByteBits).v))

\* UInt256::from_le_bytes
from_le_bytes(bs) ==
    LET r == FromLeLoop(bs, 0, 0, 0) IN New(r.high, r.low, "Little")

\* bytes.iter().rev()
Reverse(bs) == [i \in 1 .. Len(bs) |-> bs[Len(bs) + 1 - i]]

\* The loop of from_be_bytes over the reversed bytes
RECURSIVE FromBeLoop(_, _, _, _)
FromBeLoop(rev, i, low, high) ==
    IF i >= Len(rev)
    THEN [low |-> low, high |-> high]
    ELSE IF i < LimbBytes
    THEN FromBeLoop(rev, i + 1, BitOrNat(low, NativeShl(rev[i + 1], i * ByteBits).v), high)
    ELSE IF i < TotalBytes
    THEN FromBeLoop(rev, i + 1, low,
                    BitOrNat(high, NativeShl(rev[i + 1], (i - LimbBytes) * ByteBits).v))
    ELSE FromBeLoop(rev, i + 1, low, high)

\* UInt256::from_be_bytes
from_be_bytes(bs) ==
    LET r == FromBeLoop(Reverse(bs), 0, 0, 0) IN New(r.high, r.low, "Big")

\* utils::to_uint256
to_uint256(bs, e) == IF e = "Little" THEN from_le_bytes(bs) ELSE from_be_bytes(bs)

\* UInt256::as_bytes; bytes[i] of the source is element i + 1 here
as_bytes(x) ==
    [k \in 1 .. TotalBytes |->
        LET i == k - 1 IN
        IF i < LimbBytes
        THEN BitAndNat(NativeShr(x.high, ByteBits * (LimbBytes - 1 - i)).v, ByteMod - 1)
        ELSE BitAndNat(NativeShr(x.low, ByteBits * (LimbBytes - 1 - (i - LimbBytes))).v,
                       ByteMod - 1)]

\* to_le_bytes that pushes the bytes of high before those of low
ToLeBytesHighFirst(x) ==
    [k \in 1 .. TotalBytes |->
        LET i == k - 1 IN
        IF i < LimbBytes
        THEN BitAndNat(NativeShr(x.high, i * ByteBits).v, ByteMod - 1)
        ELSE BitAndNat(NativeShr(x.low, (i - LimbBytes) * ByteBits).v, ByteMod - 1)]

\* UInt256::to_le_bytes
to_le_bytes(x) ==
    [k \in 1 .. TotalBytes |->
        LET i == k - 1 IN
        IF i < LimbBytes
        THEN BitAndNat(NativeShr(x.low, i * ByteBits).v, ByteMod - 1)
        ELSE BitAndNat(NativeShr(x.high, (i - LimbBytes) * ByteBits).v, ByteMod - 1)]

\* UInt256::to_be_bytes
to_be_bytes(x) == as_bytes(x)

----------------------------------------------------------------------------
\* UInt256Builder

\* Vec<u8> arguments of from_partial_bytes: every vector of at most 32 bytes
PartialInputs == UNION {[1 .. n -> Bytes] : n \in 0 .. TotalBytes}

\* UInt256Builder::new()
BuilderInit ==
    /\ overflow_checks \in BOOLEAN
    /\ a = ZERO
    /\ b = ZERO
    /\ shift_by = 0
    /\ op = "none"
    /\ out = Panic("")
    /\ ret = NoRet
    /\ bytes = [i \in 1 .. TotalBytes |-> 0]
    /\ endian = "None"
    /\ padding = -1
    /\ status = "open"
    /\ built = Panic("")
    /\ calls = <<>>
    /\ args = NoArgs
    /\ input = NoInput

\* A call can be made on a builder that has neither panicked nor been consumed.
CanCall == status = "open" /\ Len(calls) < MaxCalls

with_padding(f) ==
    /\ CanCall
    /\ padding' = f
    /\ calls' = Append(calls, "with_padding")
    /\ args' = [args EXCEPT !.f = f]
    /\ UNCHANGED <<overflow_checks, a, b, shift_by, op, out, ret, bytes, endian, status, built, input>>

with_endian(e) ==
    /\ CanCall
    /\ endian' = e
    /\ calls' = Append(calls, "with_endian")
    /\ args' = [args EXCEPT !.e = e]
    /\ UNCHANGED <<overflow_checks, a, b, shift_by, op, out, ret, bytes, padding, status, built, input>>

from_partial_bytes(v) ==
    /\ CanCall
    /\ calls' = Append(calls, "from_partial_bytes")
    /\ IF ~(padding = -1)
       THEN status' = "panicked" /\ bytes' = bytes /\ args' = args
       ELSE IF endian = "None"
       THEN status' = "panicked" /\ bytes' = bytes /\ args' = args
       ELSE /\ status' = status
            /\ bytes' = pad_bytes(v, 0, endian)
            /\ args' = [args EXCEPT !.v = v]
    /\ UNCHANGED <<overflow_checks, a, b, shift_by, op, out, ret, endian, padding, built, input>>

from_bytes(bs) ==
    /\ CanCall
    /\ calls' = Append(calls, "from_bytes")
    /\ IF padding # -1
       THEN status' = "panicked" /\ bytes' = bytes /\ args' = args
       ELSE status' = status /\ bytes' = bs /\ args' = [args EXCEPT !.v = bs]
    /\ UNCHANGED <<overflow_checks, a, b, shift_by, op, out, ret, endian, padding, built, input>>

\* build falling back to Endian::default() when no endianness was declared
build_or_default ==
    /\ CanCall
    /\ calls' = Append(calls, "build")
    /\ status' = "built"
    /\ built' = Ok(to_uint256(bytes, IF endian = "None" THEN "Big" ELSE endian))
    /\ UNCHANGED <<overflow_checks, a, b, shift_by, op, out, ret, bytes, endian, padding, args, input>>

build ==
    /\ CanCall
    /\ calls' = Append(calls, "build")
    /\ IF endian = "None"
       THEN status' = "panicked" /\ built' = Panic("called Option::unwrap() on a None value")
       ELSE status' = "built" /\ built' = Ok(to_uint256(bytes, endian))
    /\ UNCHANGED <<overflow_checks, a, b, shift_by, op, out, ret, bytes, endian, padding, args, input>>

WithPadding == \E f \in Bytes : with_padding(f)

WithEndian == \E e \in Endian : with_endian(e)

FromPartialBytes == \E v \in PartialInputs : from_partial_bytes(v)

FromBytes == \E bs \in ByteArrays : from_bytes(bs)

Build == build

BuilderNext == WithPadding \/ WithEndian \/ FromPartialBytes \/ FromBytes \/ Build

BuilderSpec == BuilderInit /\ [][BuilderNext]_vars

----------------------------------------------------------------------------
\* The claims

\* The integer a value stands for: high * 2^128 + low
Value(x) == x.high * LimbMod + x.low

\* 2^256 - 1
MaxValue == LimbMod * LimbMod - 1

\* a < b in the (high, low) order
LexLess(x, y) == x.high < y.high \/ (x.high = y.high /\ x.low < y.low)

\* C1: when the true sum a + b is at most 2^256 - 1, a + b does not fail and
\* returns r with r.high * 2^128 + r.low = a + b.
C1_AddReturnsExactSum ==
    (op = "add" /\ Value(a) + Value(b) <= MaxValue)
        => (out.kind = "ok" /\ Value(out.val) = Value(a) + Value(b))

\* C2: a + b fails with an addition-overflow abort if and only if the true sum
\* exceeds 2^256 - 1; it never returns a value when the sum does not fit.
C2_AddFailsIffOverflow ==
    op = "add" => (out.kind = "panic" <=> Value(a) + Value(b) > MaxValue)

\* C3: when a >= b, a - b returns r with r.high * 2^128 + r.low = a - b.
C3_SubReturnsExactDifference ==
    (op = "sub" /\ Value(a) >= Value(b))
        => (out.kind = "ok" /\ Value(out.val) = Value(a) - Value(b))

\* C4: a - b fails with the "subtraction overflow" abort if and only if a < b in
\* the (high, low) order; when a >= b it returns a value, and neither the
\* defensive borrow-out-of-high abort nor a native underflow happens.
C4_SubFailsIffLess ==
    op = "sub" =>
        IF LexLess(a, b) THEN out = Panic("subtraction overflow") ELSE out.kind = "ok"

\* C4 witness: a >= b with a borrow out of the low limbs, under overflow checks.
C4_Witness ==
    /\ op = "sub"
    /\ overflow_checks
    /\ ~LexLess(a, b)
    /\ a.low < b.low
    /\ out.kind = "ok"

\* C5: when the true product a * b is at most 2^256 - 1, a * b does not fail
\* and returns r with r.high * 2^128 + r.low = a * b.
C5_MulReturnsExactProduct ==
    (op = "mul" /\ Value(a) * Value(b) <= MaxValue)
        => (out.kind = "ok" /\ Value(out.val) = Value(a) * Value(b))

\* C6: when the true product exceeds 2^256 - 1, a * b fails with an abort and
\* never returns a value.
C6_MulOverflowSignalled ==
    (op = "mul" /\ Value(a) * Value(b) > MaxValue) => out.kind = "panic"

\* C7: for b != 0, divide(a, b) returns (q, r) with q = floor(a / b) and
\* r = a mod b, and a / b returns that same q.
C7_DivideExact ==
    /\ (op = "divide" /\ Value(b) # 0)
           => /\ out.kind = "ok"
              /\ Value(out.val) = Value(a) \div Value(b)
              /\ Value(out.rem) = Value(a) % Value(b)
    /\ (op = "div" /\ Value(b) # 0)
           => /\ out.kind = "ok"
              /\ Value(out.val) = Value(a) \div Value(b)

RECURSIVE BigEndianValue(_, _)
\* The integer of the first n bytes read with byte 1 the most significant
BigEndianValue(bs, n) ==
    IF n = 0 THEN 0 ELSE BigEndianValue(bs, n - 1) * ByteMod + bs[n]

RECURSIVE LittleEndianValue(_, _)
\* The integer of the bytes from byte n on read with byte 1 the least significant
LittleEndianValue(bs, n) ==
    IF n > Len(bs) THEN 0 ELSE bs[n] + ByteMod * LittleEndianValue(bs, n + 1)

\* The integer a 32-byte buffer stands for under a packing
Packed(bs, e) ==
    IF e = "Big" THEN BigEndianValue(bs, Len(bs)) ELSE LittleEndianValue(bs, 1)

LastCall == IF calls = <<>> THEN "none" ELSE calls[Len(calls)]

Called(name) == \E i \in 1 .. Len(calls) : calls[i] = name

\* C8: build() fails and produces no value if with_endian was never called
\* before it; otherwise it returns the staged buffer decoded with the packing of
\* the most recently declared endianness and tagged with it.
C8_BuildRequiresEndian ==
    LastCall = "build" =>
        IF ~Called("with_endian")
        THEN status = "panicked" /\ built.kind = "panic"
        ELSE /\ status = "built"
             /\ built.kind = "ok"
             /\ Value(built.val) = Packed(bytes, args.e)
             /\ built.val.endian = args.e

\* C8 witness: a buffer that reads differently in the two packings, built after
\* the endianness was declared twice.
C8_Witness ==
    /\ status = "built"
    /\ calls = <<"with_endian", "from_bytes", "with_endian", "build">>
    /\ args.e = "Little"
    /\ Packed(bytes, "Big") # Packed(bytes, "Little")

\* C9: when with_padding has not been called, a call to from_partial_bytes is
\* a fatal failure that leaves the staged buffer as it was.
C9_PartialWithoutPaddingFails ==
    [][(/\ calls' = Append(calls, "from_partial_bytes")
        /\ ~Called("with_padding"))
            => (status' = "panicked" /\ bytes' = bytes)]_vars

PaddedPath == <<"with_endian", "with_padding", "from_partial_bytes", "build">>

IsPrefix(s, t) == Len(s) <= Len(t) /\ \A i \in 1 .. Len(s) : s[i] = t[i]

\* What new().with_endian(e).from_bytes(bs).build() returns
RawPath(bs, e) == Ok(to_uint256(bs, e))

\* C10: new().with_endian(e).with_padding(f).from_partial_bytes(v).build()
\* completes without failing and returns what
\* new().with_endian(e).from_bytes(pad_bytes(v, f, e)).build() returns.
C10_PaddedPathEqualsRawPath ==
    /\ IsPrefix(calls, PaddedPath) => status # "panicked"
    /\ calls = PaddedPath
           => /\ status = "built"
              /\ built = RawPath(pad_bytes(args.v, args.f, args.e), args.e)

----------------------------------------------------------------------------
\* The shifts applied to every value and shift count, in both builds

\* Shift counts: below, at and above the width of a limb and of a value
ShiftCounts == 0 .. 2 * TotalBits + 1

ShiftInit ==
    /\ overflow_checks \in BOOLEAN
    /\ a \in UInt256
    /\ b = ZERO
    /\ shift_by \in ShiftCounts
    /\ op = "none"
    /\ out = Panic("")
    /\ ret = NoRet
    /\ bytes = NoBytes
    /\ endian = "None"
    /\ padding = -1
    /\ status = "unused"
    /\ built = Panic("")
    /\ calls = <<>>
    /\ args = NoArgs
    /\ input = NoInput

ApplyShl == Apply("shl", Shl(a, shift_by))

ApplyShr == Apply("shr", Shr(a, shift_by))

ShiftNext == ApplyShl \/ ApplyShr

ShiftSpec == ShiftInit /\ [][ShiftNext]_vars

\* C11: for every shift count s >= 256, x << s and x >> s return ZERO without
\* failing.
C11_ShiftByWidthOrMoreIsZero ==
    (op \in {"shl", "shr"} /\ shift_by >= TotalBits)
        => (out.kind = "ok" /\ out.val.high = 0 /\ out.val.low = 0)

\* C12: x << 0 and x >> 0 return x (same limbs) and do not fail.
C12_ShiftByZeroIsNoOp ==
    (op \in {"shl", "shr"} /\ shift_by = 0)
        => (out.kind = "ok" /\ out.val.high = a.high /\ out.val.low = a.low)

\* C13: for every s in [1, 255], x << s is (x * 2^s) mod 2^256 and x >> s is
\* floor(x / 2^s), without failing in either build; s = 128 is a direct limb
\* move (x << 128 = (x.low, 0), x >> 128 = (0, x.high)).
C13_ShiftsExact ==
    /\ (op = "shl" /\ shift_by \in 1 .. TotalBits - 1)
           => /\ out.kind = "ok"
              /\ Value(out.val) = (Value(a) * Pow2(shift_by)) % (MaxValue + 1)
    /\ (op = "shr" /\ shift_by \in 1 .. TotalBits - 1)
           => /\ out.kind = "ok"
              /\ Value(out.val) = Value(a) \div Pow2(shift_by)
    /\ (op = "shl" /\ shift_by = LimbBits)
           => (out.kind = "ok" /\ out.val.high = a.low /\ out.val.low = 0)
    /\ (op = "shr" /\ shift_by = LimbBits)
           => (out.kind = "ok" /\ out.val.high = 0 /\ out.val.low = a.high)

\* C13 witness: a left shift below the limb width that carries a set bit of
\* low into high, under overflow checks.
C13_Witness ==
    /\ op = "shl"
    /\ overflow_checks
    /\ shift_by \in 1 .. LimbBits - 1
    /\ a.low >= Pow2(LimbBits - shift_by)
    /\ out.kind = "ok"
    /\ out.val.high % Pow2(shift_by) # 0

----------------------------------------------------------------------------
\* Byte conversions: a 32-byte array is decoded into a, and a is encoded

ByteInit ==
    /\ overflow_checks \in BOOLEAN
    /\ a \in UInt256
    /\ b = ZERO
    /\ shift_by = 0
    /\ op = "none"
    /\ out = Panic("")
    /\ ret = NoRet
    /\ bytes \in ByteArrays
    /\ endian = "None"
    /\ padding = -1
    /\ status = "unused"
    /\ built = Panic("")
    /\ calls = <<>>
    /\ args = NoArgs
    /\ input = NoInput

\* a = UInt256::from_xx_bytes(&bytes)
Decode(name, value) ==
    /\ calls = <<>>
    /\ a' = value
    /\ op' = name
    /\ calls' = <<name>>
    /\ UNCHANGED <<overflow_checks, b, shift_by, out, ret, bytes, endian, padding, status, built, args, input>>

\* ret = a.to_xx_bytes(), of the initial a or of the decoded one
Encode(name, result) ==
    /\ ret = NoRet
    /\ ret' = result
    /\ op' = name
    /\ calls' = Append(calls, name)
    /\ UNCHANGED <<overflow_checks, a, b, shift_by, out, bytes, endian, padding, status, built, args, input>>

FromBeBytes == Decode("from_be_bytes", from_be_bytes(bytes))

FromLeBytes == Decode("from_le_bytes", from_le_bytes(bytes))

ToBeBytes == Encode("to_be_bytes", to_be_bytes(a))

ToLeBytes == Encode("to_le_bytes", to_le_bytes(a))

ByteNext == FromBeBytes \/ FromLeBytes \/ ToBeBytes \/ ToLeBytes

ByteSpec == ByteInit /\ [][ByteNext]_vars

\* C14: to_be_bytes(from_be_bytes(b)) = b and to_le_bytes(from_le_bytes(b)) = b
\* for every 32-byte b; the bytes of to_be_bytes and to_le_bytes are the same
\* for either endianness tag of the value, and to_le_bytes is the reversal of
\* to_be_bytes.
C14_ByteRoundTrip ==
    /\ calls = <<"from_be_bytes", "to_be_bytes">> => ret = bytes
    /\ calls = <<"from_le_bytes", "to_le_bytes">> => ret = bytes
    /\ op = "to_be_bytes"
           => /\ Len(ret) = TotalBytes
              /\ \A e \in Endian : to_be_bytes(New(a.high, a.low, e)) = ret
              /\ Reverse(ret) = to_le_bytes(a)
    /\ op = "to_le_bytes"
           => /\ Len(ret) = TotalBytes
              /\ \A e \in Endian : to_le_bytes(New(a.high, a.low, e)) = ret
              /\ ret = Reverse(to_be_bytes(a))

\* C14 witness: a little-endian round trip of bytes that are not their own
\* reversal and touch both limbs.
C14_Witness ==
    /\ calls = <<"from_le_bytes", "to_le_bytes">>
    /\ bytes # Reverse(bytes)
    /\ a.high # 0
    /\ a.low # 0
    /\ ret = bytes

----------------------------------------------------------------------------
\* Equality, ordering and hashing of two values

CompareInit ==
    /\ overflow_checks \in BOOLEAN
    /\ a \in UInt256
    /\ b \in UInt256
    /\ shift_by = 0
    /\ op = "none"
    /\ out = Panic("")
    /\ ret = NoRet
    /\ bytes = NoBytes
    /\ endian = "None"
    /\ padding = -1
    /\ status = "unused"
    /\ built = Panic("")
    /\ calls = <<>>
    /\ args = NoArgs
    /\ input = NoInput

\* An operation that returns something other than a UInt256
Return(name, value) ==
    /\ op = "none"
    /\ op' = name
    /\ ret' = value
    /\ UNCHANGED <<overflow_checks, a, b, shift_by, out, bytes, endian, padding, status, built, calls, args, input>>

ApplyEq == Return("eq", Eq(a, b))

ApplyCmp == Return("cmp", Cmp(a, b))

ApplyPartialCmp == Return("partial_cmp", partial_cmp(a, b))

\* a.hash(state) and b.hash(state): what each feeds to its hasher
ApplyHash == Return("hash", <<hash(a), hash(b)>>)

CompareNext == ApplyEq \/ ApplyCmp \/ ApplyPartialCmp \/ ApplyHash

CompareSpec == CompareInit /\ [][CompareNext]_vars

\* The comparison of two integers
NumericCmp(m, n) == IF m < n THEN "Less" ELSE IF m > n THEN "Greater" ELSE "Equal"

\* Ordering::reverse
Reversed(o) == IF o = "Less" THEN "Greater" ELSE IF o = "Greater" THEN "Less" ELSE "Equal"

\* C15: a == b iff the high and low limbs are equal, whatever the tags; cmp(a, b)
\* is the lexicographic comparison on (high, low), equal to the comparison of
\* the integers a.high * 2^128 + a.low and b.high * 2^128 + b.low; the order is
\* total and transitive.
C15_EqAndCmpAreNumeric ==
    /\ op = "eq"
           => /\ ret = (a.high = b.high /\ a.low = b.low)
              /\ ret = (Value(a) = Value(b))
              /\ \A e1, e2 \in Endian :
                     Eq(New(a.high, a.low, e1), New(b.high, b.low, e2)) = ret
    /\ op \in {"cmp", "partial_cmp"}
           => LET o == IF op = "cmp" THEN ret ELSE ret.ord IN
              /\ op = "partial_cmp" => ret.some
              /\ o = NumericCmp(Value(a), Value(b))
              /\ (o = "Less") = LexLess(a, b)
              /\ (o = "Greater") = LexLess(b, a)
              /\ (o = "Equal") = Eq(a, b)
              /\ \A e1, e2 \in Endian :
                     Cmp(New(a.high, a.low, e1), New(b.high, b.low, e2)) = o
              /\ Cmp(b, a) = Reversed(o)
              /\ \A c \in UInt256 :
                     (o # "Greater" /\ Cmp(b, c) # "Greater") => Cmp(a, c) # "Greater"

\* C15 witness: a compares below b by its high limb although its low limb is
\* the larger one, and the tags differ.
C15_Witness ==
    /\ op = "cmp"
    /\ a.high < b.high
    /\ a.low > b.low
    /\ a.endian # b.endian
    /\ ret = "Less"

----------------------------------------------------------------------------
\* Hex strings.  A &str is the sequence of its chars; a digit carries one
\* byte of the scaled width, so a limb is LimbChars digits.

\* const DEFAULT_RADIX
DEFAULT_RADIX == Pow2(ByteBits)

\* const DEFAULT_ENDIAN
DEFAULT_ENDIAN == "Big"

\* The 32 chars of a limb and the 64 of a value
LimbChars == LimbBytes

TotalChars == 2 * LimbChars

\* char::len_utf8: "U+00E9" stands for a char of two bytes
CharLen(c) == IF c = "U+00E9" THEN 2 ELSE 1

\* str::len, in bytes
RECURSIVE ByteLen(_)
ByteLen(str) == IF str = <<>> THEN 0 ELSE CharLen(Head(str)) + ByteLen(Tail(str))

\* The numbers of leading chars that end at byte index k
CharBoundary(str, k) == {n \in 0 .. Len(str) : ByteLen(SubSeq(str, 1, n)) = k}

SlicePanic(str, k) ==
    IF k > ByteLen(str)
    THEN NPanic("byte index is out of bounds")
    ELSE NPanic("byte index is not a char boundary")

\* &str[..k]
SliceTo(str, k) ==
    IF CharBoundary(str, k) = {}
    THEN SlicePanic(str, k)
    ELSE NOk(SubSeq(str, 1, CHOOSE n \in CharBoundary(str, k) : TRUE))

\* &str[k..]
SliceFrom(str, k) ==
    IF CharBoundary(str, k) = {}
    THEN SlicePanic(str, k)
    ELSE NOk(SubSeq(str, (CHOOSE n \in CharBoundary(str, k) : TRUE) + 1, Len(str)))

RECURSIVE trim_start(_)
trim_start(str) ==
    IF str # <<>> /\ Head(str) = " " THEN trim_start(Tail(str)) ELSE str

RECURSIVE trim_end(_)
trim_end(str) ==
    IF str # <<>> /\ str[Len(str)] = " "
    THEN trim_end(SubSeq(str, 1, Len(str) - 1))
    ELSE str

\* str::trim
trim(str) == trim_end(trim_start(str))

\* str::strip_prefix: an Option
strip_prefix(str, prefix) ==
    IF Len(str) >= Len(prefix) /\ SubSeq(str, 1, Len(prefix)) = prefix
    THEN [some |-> TRUE, v |-> SubSeq(str, Len(prefix) + 1, Len(str))]
    ELSE [some |-> FALSE, v |-> str]

\* char::to_digit: -1 for None
to_digit(c, radix) ==
    LET d == CASE c = "0" -> 0 [] c = "1" -> 1 [] OTHER -> -1
    IN  IF d >= 0 /\ d < radix THEN d ELSE -1

RECURSIVE ParseDigits(_, _, _)
ParseDigits(digits, radix, acc) ==
    IF digits = <<>> THEN NOk(acc)
    ELSE LET d == to_digit(Head(digits), radix) IN
         IF d < 0 THEN NPanic("InvalidDigit")
         ELSE IF acc * radix + d > U128MAX THEN NPanic("PosOverflow")
         ELSE ParseDigits(Tail(digits), radix, acc * radix + d)

\* u128::from_str_radix: ok = FALSE is Err(ParseIntError { kind: msg })
u128_from_str_radix(src, radix) ==
    IF src = <<>> THEN NPanic("Empty")
    ELSE IF src = <<"+">> THEN NPanic("InvalidDigit")
    ELSE IF Head(src) = "+" THEN ParseDigits(Tail(src), radix, 0)
    ELSE ParseDigits(src, radix, 0)

\* u128::to_be_bytes
u128_to_be_bytes(n) ==
    [k \in 1 .. LimbBytes |-> (n \div Pow2(ByteBits * (LimbBytes - k))) % ByteMod]

\* Result: Ok(v), Err(m), or no return at all
Returned(v) == [kind |-> "ok", msg |-> "", val |-> v]

Err(m) == [kind |-> "err", msg |-> m, val |-> <<>>]

Panicked(m) == [kind |-> "panic", msg |-> m, val |-> <<>>]

\* utils::hex_to_bytes_pair
hex_to_bytes_pair(n, e) ==
    LET stripped == strip_prefix(trim(n), <<"0", "x">>) IN
    IF ~stripped.some
    THEN Panicked("called Option::unwrap() on a None value")
    ELSE LET hx       == stripped.v
             low_hex  == IF e = "Big" THEN SliceTo(hx, LimbChars) ELSE SliceFrom(hx, LimbChars)
             high_hex == IF e = "Big" THEN SliceFrom(hx, LimbChars) ELSE SliceTo(hx, LimbChars)
         IN
         IF ~low_hex.ok THEN Panicked(low_hex.msg)
         ELSE IF ~high_hex.ok THEN Panicked(high_hex.msg)
         ELSE LET low_num  == u128_from_str_radix(low_hex.v, DEFAULT_RADIX)
                  high_num == u128_from_str_radix(high_hex.v, DEFAULT_RADIX)
              IN
              IF ~low_num.ok \/ ~high_num.ok
              THEN Panicked("called Result::unwrap() on an Err value: ParseIntError")
              ELSE IF e = "Big"
              THEN Returned([low  |-> u128_to_be_bytes(low_num.v),
                             high |-> u128_to_be_bytes(high_num.v)])
              ELSE Returned([low  |-> Reverse(u128_to_be_bytes(low_num.v)),
                             high |-> Reverse(u128_to_be_bytes(high_num.v))])

\* UInt256::from_str_radix
from_str_radix(str, radix, e) ==
    LET t == trim(str) IN
    IF ByteLen(t) # TotalChars THEN Err("Invalid length")
    ELSE LET first  == SliceTo(t, LimbChars)
             second == SliceFrom(t, LimbChars)
             low_s  == IF e = "Big" THEN second ELSE first
             high_s == IF e = "Big" THEN first ELSE second
         IN
         IF ~low_s.ok THEN Panicked(low_s.msg)
         ELSE LET low == u128_from_str_radix(low_s.v, radix) IN
              IF ~low.ok THEN Err("Invalid hex")
              ELSE IF ~high_s.ok THEN Panicked(high_s.msg)
              ELSE LET high == u128_from_str_radix(high_s.v, radix) IN
                   IF ~high.ok THEN Err("Invalid hex")
                   ELSE Returned(New(high.v, low.v, e))

\* impl FromStr for UInt256
from_str(str) ==
    from_str_radix(strip_prefix(str, <<"0", "x">>).v, DEFAULT_RADIX, DEFAULT_ENDIAN)

\* The digits of DEFAULT_RADIX
HexDigits == {c \in {"0", "1"} : to_digit(c, DEFAULT_RADIX) >= 0}

\* Chars that are no digit: a letter, a sign, a blank, a char of two bytes
OtherChars == {"g", "+", " ", "U+00E9"}

\* Digit strings of up to one char more than a value
DigitStrings == UNION {[1 .. n -> HexDigits] : n \in 0 .. TotalChars + 1}

\* Strings of digits with at most one char replaced, with or without "0x"
Bodies ==
    DigitStrings \cup
    UNION {{[d EXCEPT ![i] = c] : i \in 1 .. Len(d), c \in OtherChars} : d \in DigitStrings}

HexInputs == Bodies \cup {<<"0", "x">> \o d : d \in Bodies}

HexInit ==
    /\ overflow_checks \in BOOLEAN
    /\ a = ZERO
    /\ b = ZERO
    /\ shift_by = 0
    /\ op = "none"
    /\ out = Panic("")
    /\ ret = NoRet
    /\ bytes = NoBytes
    /\ endian \in Endian
    /\ padding = -1
    /\ status = "unused"
    /\ built = Panic("")
    /\ calls = <<>>
    /\ args = NoArgs
    /\ input \in HexInputs

\* utils::hex_to_bytes_pair(input, endian)
HexToBytesPair == Return("hex_to_bytes_pair", hex_to_bytes_pair(input, endian))

\* UInt256::from_str_radix(input, 16, endian)
FromStrRadix == Return("from_str_radix", from_str_radix(input, DEFAULT_RADIX, endian))

\* input.parse::<UInt256>()
FromStr == Return("from_str", from_str(input))

HexNext == HexToBytesPair \/ FromStrRadix \/ FromStr

HexSpec == HexInit /\ [][HexNext]_vars

\* The digits of a string, without surrounding blanks and an optional "0x"
HexBody(str) == strip_prefix(trim(str), <<"0", "x">>).v

\* Wrong length or a char that is no hex digit
Malformed(str) ==
    \/ Len(HexBody(str)) # TotalChars
    \/ \E i \in 1 .. Len(HexBody(str)) : HexBody(str)[i] \notin HexDigits

\* C16: for every input string of the wrong length or with a non-hex char,
\* hex_to_bytes_pair (either endianness, also without a 0x prefix),
\* from_str_radix and from_str return an Err value and do not panic.
C16_MalformedHexIsErr ==
    (op \in {"hex_to_bytes_pair", "from_str_radix", "from_str"} /\ Malformed(input))
        => ret.kind = "err"

----------------------------------------------------------------------------
\* Multiplication and division, under Spec

\* C17: a * b fails if and only if b * a fails, and when both return the
\* results have the same high and low limbs.
C17_MulCommutes ==
    op = "mul"
        => LET swapped == Mul(b, a) IN
           /\ (out.kind = "panic") = (swapped.kind = "panic")
           /\ out.kind = "ok"
                  => /\ out.val.high = swapped.val.high
                     /\ out.val.low = swapped.val.low

\* C17 witness: a product that returns, of operands whose cross products
\* a.low * b.high and a.high * b.low differ.
C17_Witness ==
    /\ op = "mul"
    /\ out.kind = "ok"
    /\ a.low * b.high # a.high * b.low
    /\ out.val.low # 0

\* C18: for every a, also with a non-zero high limb, a * ONE and ONE * a do
\* not fail and return a value equal to a.
C18_MulIdentity ==
    /\ (op = "mul" /\ Eq(b, ONE)) => (out.kind = "ok" /\ Eq(out.val, a))
    /\ (op = "mul" /\ Eq(a, ONE)) => (out.kind = "ok" /\ Eq(out.val, b))

C20_HashConsistentWithEq ==
    (op = "hash" /\ Eq(a, b)) => ret[1] = ret[2]

====
